---- MODULE Spec2Model ----
(***************************************************************************)
(* Model of src/src/extension.ts: activate() and the TreeDataProvider that *)
(* lists a workspace's web/src directory and splices the matching files of *)
(* web/src/tests and web/src/stories after each entry of a directory.      *)
(*                                                                         *)
(* A file name is a sequence of one-character strings, a path a sequence   *)
(* of file names, the empty path the empty string '' (no workspace).       *)
(* The filesystem is a function from the paths that exist to inodes; the   *)
(* program only reads it.                                                  *)
(***************************************************************************)
EXTENDS Integers, Sequences, FiniteSets, TLC

VARIABLES
    workspaceFolders,  \* vscode.workspace.workspaceFolders, as a sequence of paths
    workspaceRoot,     \* TreeDataProvider.workspaceRoot
    fs,                \* the filesystem: path -> [stat, ls]
    element,           \* argument of the last getChildren call: <<>> or <<FileItem>>
    result,            \* outcome of the last getChildren call
    notices,           \* showInformationMessage calls so far
    calls,             \* getChildren calls so far
    fired,             \* TRUE once refresh() has fired an onDidChangeTreeData event
    componentLabel,    \* findMatchingFiles: the component's label
    fileName,          \* findMatchingFiles: the candidate handed to the filter callback
    isTestFile         \* findMatchingFiles: the callback's verdict, "unset" before it ran

vars == <<workspaceFolders, workspaceRoot, fs, element, result, notices, calls, fired,
          componentLabel, fileName, isTestFile>>

treeVars == <<workspaceFolders, workspaceRoot, fs, element, result, notices, calls, fired>>
matchVars == <<componentLabel, fileName, isTestFile>>

-----------------------------------------------------------------------------
(* Bounds *)

MaxComp == 2
MaxAux == 2
MaxCalls == 2

-----------------------------------------------------------------------------
(* Strings *)

Min(S) == CHOOSE x \in S : \A y \in S : x <= y

Range(s) == {s[i] : i \in 1..Len(s)}

\* String.prototype.indexOf: 0-based index of the first occurrence, -1 if none
IndexOf(s, pat) ==
    LET occ == {i \in 0..(Len(s) - Len(pat)) : SubSeq(s, i + 1, i + Len(pat)) = pat}
    IN  IF occ = {} THEN -1 ELSE Min(occ)

\* String.prototype.includes
Includes(s, pat) ==
    \E i \in 1..(Len(s) - Len(pat) + 1) : \A k \in 1..Len(pat) : s[i + k - 1] = pat[k]

\* String.prototype.split('.')
RECURSIVE SplitDot(_)
SplitDot(s) ==
    LET dots == {i \in 1..Len(s) : s[i] = "."}
    IN  IF dots = {} THEN <<s>>
        ELSE LET i == Min(dots)
             IN  <<SubSeq(s, 1, i - 1)>> \o SplitDot(SubSeq(s, i + 1, Len(s)))

DotTest == <<".", "t", "e", "s", "t", ".">>
DotStories == <<".", "s", "t", "o", "r", "i", "e", "s", ".">>

TestsName == <<"t", "e", "s", "t", "s">>
StoriesName == <<"s", "t", "o", "r", "i", "e", "s">>
Web == <<"w", "e", "b">>
Src == <<"s", "r", "c">>

-----------------------------------------------------------------------------
(* Filesystem primitives *)

NoFiles == [p \in {} |-> 0]

Stat(f, p) == IF p \in DOMAIN f THEN f[p].stat ELSE "ENOENT"

\* fs.accessSync(p) returns normally
AccessOk(f, p) == Stat(f, p) \notin {"ENOENT", "EACCES"}

\* fs.existsSync(p)
ExistsSync(f, p) == Stat(f, p) \notin {"ENOENT", "EACCES"}

\* fs.lstatSync(p).isDirectory()
LstatIsDirectory(f, p) == Stat(f, p) \in {"dir", "unreadable"}

\* fs.readdirSync(p): throws ENOTDIR on a file, EACCES on an unreadable directory
ReaddirSync(f, p) ==
    IF Stat(f, p) = "dir"
    THEN [thrown |-> FALSE, names |-> f[p].ls]
    ELSE [thrown |-> TRUE, names |-> <<>>]

\* path.join(dir, name)
PathJoin(dir, name) == Append(dir, name)

-----------------------------------------------------------------------------
(* FileItem and TreeDataProvider *)

None == 0
Collapsed == 1

Truthy(n) == n # 0

OpenCommand(filePath) == [command |-> "vscode.open", arguments |-> <<filePath>>]
NoCommand == [command |-> "undefined", arguments |-> <<>>]

FileItem(label, resourceUri, collapsibleState, command, isTestOrStoryFile_) ==
    [label |-> label, fsPath |-> resourceUri, collapsibleState |-> collapsibleState,
     command |-> command, isTestOrStoryFile |-> isTestOrStoryFile_]

Ok(items, io) == [thrown |-> FALSE, items |-> items, io |-> io, notice |-> 0]
Throw(io) == [thrown |-> TRUE, items |-> <<>>, io |-> io, notice |-> 0]

RootPath(folders) ==
    IF Len(folders) > 0 THEN folders[1] \o <<Web, Src>> ELSE <<>>

InTestOrStoryDirectory(wr, directoryPath) ==
    \/ directoryPath = PathJoin(wr, TestsName)
    \/ directoryPath = PathJoin(wr, StoriesName)

IsTestOrStoryFile(label) == Includes(label, DotTest) \/ Includes(label, DotStories)

\* pathExists without its try/catch verdict: every path is taken to exist
PathExists_AlwaysTrue(f, p) == TRUE

PathExists(f, p) == AccessOk(f, p)

GetAllFileNamesInDirectory(f, directoryPath) ==
    IF PathExists(f, directoryPath)
    THEN LET r == ReaddirSync(f, directoryPath)
         IN  [thrown |-> r.thrown, names |-> r.names, io |-> 2]
    ELSE [thrown |-> FALSE, names |-> <<>>, io |-> 1]

CreateFileItem(f, el, directoryPath, displayTestIcon) ==
    LET filePath == PathJoin(directoryPath, el)
        exists == ExistsSync(f, filePath)
        isDirectory == IF exists /\ LstatIsDirectory(f, filePath) THEN Collapsed ELSE None
    IN  [item |-> FileItem(el, filePath,
                           IF Truthy(isDirectory) THEN Collapsed ELSE None,
                           IF Truthy(isDirectory) THEN NoCommand ELSE OpenCommand(filePath),
                           displayTestIcon),
         io |-> IF exists THEN 2 ELSE 1]

\* names.map(name => this.createFileItem({element: name, directoryPath, displayTestIcon}))
RECURSIVE MapCreateFileItem(_, _, _, _)
MapCreateFileItem(f, names, directoryPath, displayTestIcon) ==
    IF names = <<>> THEN [items |-> <<>>, io |-> 0]
    ELSE LET h == CreateFileItem(f, Head(names), directoryPath, displayTestIcon)
             t == MapCreateFileItem(f, Tail(names), directoryPath, displayTestIcon)
         IN  [items |-> <<h.item>> \o t.items, io |-> h.io + t.io]

GetAllFilesInDirectory(wr, f, directoryPath) ==
    LET allElements == GetAllFileNamesInDirectory(f, directoryPath)
        displayTestIcon == InTestOrStoryDirectory(wr, directoryPath)
    IN  IF allElements.thrown THEN Throw(allElements.io)
        ELSE LET m == MapCreateFileItem(f, allElements.names, directoryPath, displayTestIcon)
             IN  Ok(m.items, allElements.io + m.io)

\* the filter callback testing indexOf(...) >= 0 (a substring test) instead of === 0
IsTestFile_Substring(label, name) ==
    LET splitPath == SplitDot(label)
    IN  \/ IndexOf(name, splitPath[1] \o DotTest) >= 0
        \/ IndexOf(name, splitPath[1] \o DotStories) >= 0

\* the filter callback of findMatchingFiles
IsTestFile(label, name) ==
    LET splitPath == SplitDot(label)
    IN  \/ IndexOf(name, splitPath[1] \o DotTest) = 0
        \/ IndexOf(name, splitPath[1] \o DotStories) = 0

FindMatchingFiles(f, directoryPath, label) ==
    LET all == GetAllFileNamesInDirectory(f, directoryPath)
    IN  IF all.thrown THEN Throw(all.io)
        ELSE LET kept == SelectSeq(all.names, LAMBDA name : IsTestFile(label, name))
                 m == MapCreateFileItem(f, kept, directoryPath, TRUE)
             IN  Ok(m.items, all.io + m.io)

\* forEach pushing the stories matches before the tests matches
RECURSIVE ForEachFile_StoriesFirst(_, _, _, _)
ForEachFile_StoriesFirst(wr, f, files, acc) ==
    IF files = <<>> THEN acc
    ELSE LET file == Head(files)
             pushed == Ok(Append(acc.items, file), acc.io)
         IN  IF ~IsTestOrStoryFile(file.label)
             THEN LET s == FindMatchingFiles(f, PathJoin(wr, StoriesName), file.label)
                  IN  IF s.thrown THEN Throw(acc.io + s.io)
                      ELSE LET t == FindMatchingFiles(f, PathJoin(wr, TestsName), file.label)
                           IN  IF t.thrown THEN Throw(acc.io + s.io + t.io)
                               ELSE ForEachFile_StoriesFirst(wr, f, Tail(files),
                                        Ok(pushed.items \o s.items \o t.items,
                                           acc.io + s.io + t.io))
             ELSE ForEachFile_StoriesFirst(wr, f, Tail(files), pushed)

\* the body of allFiles.forEach, from the first file of `files` on
RECURSIVE ForEachFile(_, _, _, _)
ForEachFile(wr, f, files, acc) ==
    IF files = <<>> THEN acc
    ELSE LET file == Head(files)
             pushed == Ok(Append(acc.items, file), acc.io)
         IN  IF ~IsTestOrStoryFile(file.label)
             THEN LET t == FindMatchingFiles(f, PathJoin(wr, TestsName), file.label)
                  IN  IF t.thrown THEN Throw(acc.io + t.io)
                      ELSE LET s == FindMatchingFiles(f, PathJoin(wr, StoriesName), file.label)
                           IN  IF s.thrown THEN Throw(acc.io + t.io + s.io)
                               ELSE ForEachFile(wr, f, Tail(files),
                                                Ok(pushed.items \o t.items \o s.items,
                                                   acc.io + t.io + s.io))
             ELSE ForEachFile(wr, f, Tail(files), pushed)

GetCombinedComponentsWithTestFiles(wr, f, directoryPath) ==
    LET allFiles == GetAllFilesInDirectory(wr, f, directoryPath)
    IN  IF allFiles.thrown THEN allFiles
        ELSE ForEachFile(wr, f, allFiles.items, Ok(<<>>, allFiles.io))

\* getChildren merging every expanded directory, tests and stories included
GetChildren_AlwaysMerge(wr, f, el) ==
    IF wr = <<>>
    THEN [thrown |-> FALSE, items |-> <<>>, io |-> 0, notice |-> 1]
    ELSE IF el # <<>>
         THEN GetCombinedComponentsWithTestFiles(wr, f, el[1].fsPath)
         ELSE GetAllFilesInDirectory(wr, f, wr)

\* getChildren without the empty-workspace guard
GetChildren_NoGuard(wr, f, el) ==
    IF el # <<>>
    THEN LET isTestOrStoryDirectory == InTestOrStoryDirectory(wr, el[1].fsPath)
         IN  IF ~isTestOrStoryDirectory
             THEN GetCombinedComponentsWithTestFiles(wr, f, el[1].fsPath)
             ELSE GetAllFilesInDirectory(wr, f, el[1].fsPath)
    ELSE GetAllFilesInDirectory(wr, f, wr)

GetChildren(wr, f, el) ==
    IF wr = <<>>
    THEN [thrown |-> FALSE, items |-> <<>>, io |-> 0, notice |-> 1]
    ELSE IF el # <<>>
         THEN LET isTestOrStoryDirectory == InTestOrStoryDirectory(wr, el[1].fsPath)
              IN  IF ~isTestOrStoryDirectory
                  THEN GetCombinedComponentsWithTestFiles(wr, f, el[1].fsPath)
                  ELSE GetAllFilesInDirectory(wr, f, el[1].fsPath)
         ELSE GetAllFilesInDirectory(wr, f, wr)

-----------------------------------------------------------------------------
(* The filesystems explored: <folder>/web/src with a few component entries, a  *)
(* component sub-directory ui, and the directories tests and stories, each in  *)
(* the states a path can be in.  An entry of kind "gone" is listed by readdir  *)
(* but does not resolve (a dangling link).                                     *)

Folder == << <<"w", "s">> >>
DiskRoot == Folder \o <<Web, Src>>
UiName == <<"u", "i">>

Tsx == <<"t", "s", "x">>
A_tsx == <<"A", ".">> \o Tsx
B_tsx == <<"B", ".">> \o Tsx
A_css == <<"A", ".", "c", "s", "s">>
A_dir == <<"A">>
A_test_tsx == <<"A">> \o DotTest \o Tsx
AB_test_tsx == <<"A", "B">> \o DotTest \o Tsx
A_stories_tsx == <<"A">> \o DotStories \o Tsx
B_stories_tsx == <<"B">> \o DotStories \o Tsx

Entry(name, kind) == [name |-> name, kind |-> kind]

CompOrder == <<Entry(A_tsx, "file"), Entry(B_tsx, "file"), Entry(A_test_tsx, "file"),
               Entry(A_dir, "dir"), Entry(A_css, "file")>>
TestsOrder == <<Entry(A_tsx, "file"), Entry(A_test_tsx, "file"), Entry(AB_test_tsx, "gone")>>
StoriesPool == {Entry(A_stories_tsx, "file"), Entry(B_stories_tsx, "file")}
RootEntries == <<Entry(A_tsx, "file")>>

\* the sequences of at most n distinct elements of S
SeqsUpTo(S, n) ==
    UNION {{s \in [1..k -> S] : \A i, j \in 1..k : i # j => s[i] # s[j]} : k \in 0..n}

\* the subsequences of at most n elements of sequence s
SubSeqsUpTo(s, n) ==
    {SelectSeq(s, LAMBDA e : e \in {s[i] : i \in X}) :
        X \in {Y \in SUBSET (1..Len(s)) : Cardinality(Y) <= n}}

DirOption(stat, entries) == [stat |-> stat, entries |-> entries]

UiOptions ==
    {DirOption("ENOENT", <<>>)}
        \cup {DirOption("dir", s) : s \in SubSeqsUpTo(CompOrder, MaxComp)}
TestsOptions ==
    {DirOption(st, <<>>) : st \in {"ENOENT", "EACCES", "file", "unreadable"}}
        \cup {DirOption("dir", s) : s \in SubSeqsUpTo(TestsOrder, MaxAux)}
StoriesOptions ==
    {DirOption(st, <<>>) : st \in {"ENOENT", "file"}}
        \cup {DirOption("dir", s) : s \in SeqsUpTo(StoriesPool, MaxAux)}

EntryNames(entries) == [i \in 1..Len(entries) |-> entries[i].name]

\* the inodes of the entries of directory p
Children(p, entries) ==
    LET live == {e \in Range(entries) : e.kind # "gone"}
    IN  [q \in {PathJoin(p, e.name) : e \in live} |->
            LET e == CHOOSE x \in live : PathJoin(p, x.name) = q
            IN  [stat |-> e.kind, ls |-> <<>>]]

\* the inodes of p and below, p being in state opt
DirTree(p, opt) ==
    IF opt.stat = "ENOENT" THEN NoFiles
    ELSE IF opt.stat = "dir"
         THEN (p :> [stat |-> "dir", ls |-> EntryNames(opt.entries)])
                  @@ Children(p, opt.entries)
         ELSE (p :> [stat |-> opt.stat, ls |-> <<>>])

Listed(name, opt) == IF opt.stat = "ENOENT" THEN <<>> ELSE <<name>>

MakeFs(rootEntries, ui, tests, stories) ==
    (DiskRoot :> [stat |-> "dir",
                  ls |-> EntryNames(rootEntries) \o Listed(UiName, ui)
                             \o Listed(TestsName, tests) \o Listed(StoriesName, stories)])
        @@ Children(DiskRoot, rootEntries)
        @@ DirTree(PathJoin(DiskRoot, UiName), ui)
        @@ DirTree(PathJoin(DiskRoot, TestsName), tests)
        @@ DirTree(PathJoin(DiskRoot, StoriesName), stories)

Filesystems ==
    {NoFiles}
        \cup {MakeFs(RootEntries, u, t, s) :
                 u \in UiOptions, t \in TestsOptions, s \in StoriesOptions}

\* the collapsible rows a host can hold for filesystem f
HostItems(f) ==
    LET rows == UNION {Range(GetAllFilesInDirectory(DiskRoot, f, p).items) : p \in DOMAIN f}
    IN  {it \in rows : it.collapsibleState = Collapsed}

-----------------------------------------------------------------------------
(* The labels the filter callback is tried on *)

Stems == {<<>>, <<"A">>, <<"B">>, <<"A", "B">>,
          <<"B", "u", "t", "t", "o", "n">>,
          <<"B", "u", "t", "t", "o", "n", "G", "r", "o", "u", "p">>}
Suffixes == {<<>>, <<".">> \o Tsx, DotTest \o Tsx, DotStories \o Tsx,
             <<".", "t", "e", "s", "t">>, <<"t", "e", "s", "t", ".">> \o Tsx,
             DotTest \o <<"s", "t", "o", "r", "i", "e", "s", ".", "x">>}
Labels == {st \o su : st \in Stems, su \in Suffixes}

-----------------------------------------------------------------------------
(* State machine *)

NoResult == [thrown |-> FALSE, items |-> <<>>, io |-> 0]

\* activate(): new TreeDataProvider(rootPath)
Activate(folders, f) ==
    /\ workspaceFolders = folders
    /\ workspaceRoot = RootPath(folders)
    /\ fs = f
    /\ element = <<>>
    /\ result = NoResult
    /\ notices = 0
    /\ calls = 0
    /\ fired = FALSE

MatchIdle ==
    /\ componentLabel = <<>>
    /\ fileName = <<>>
    /\ isTestFile = "unset"

Init ==
    /\ \E f \in Filesystems : Activate(<<Folder>>, f)
    /\ MatchIdle

InitNoWorkspace ==
    /\ \E f \in Filesystems : Activate(<<>>, f)
    /\ MatchIdle

InitMatch ==
    /\ Activate(<<>>, NoFiles)
    /\ componentLabel \in Labels
    /\ fileName \in Labels
    /\ isTestFile = "unset"

\* a provider that keeps the children it computed first and returns them again
GetChildrenCall_Cached(el) ==
    /\ calls < MaxCalls
    /\ LET r == GetChildren(workspaceRoot, fs, el)
       IN  /\ result' = IF calls > 0 THEN result
                         ELSE [thrown |-> r.thrown, items |-> r.items, io |-> r.io]
           /\ notices' = notices + r.notice
    /\ element' = el
    /\ calls' = calls + 1
    /\ UNCHANGED <<workspaceFolders, workspaceRoot, fs, fired>>
    /\ UNCHANGED matchVars

\* one getChildren(el) call
GetChildrenCall(el) ==
    /\ calls < MaxCalls
    /\ LET r == GetChildren(workspaceRoot, fs, el)
       IN  /\ result' = [thrown |-> r.thrown, items |-> r.items, io |-> r.io]
           /\ notices' = notices + r.notice
    /\ element' = el
    /\ calls' = calls + 1
    /\ UNCHANGED <<workspaceFolders, workspaceRoot, fs, fired>>
    /\ UNCHANGED matchVars

GetChildrenRoot == GetChildrenCall(<<>>)

GetChildrenElement == \E it \in HostItems(fs) : GetChildrenCall(<<it>>)

Refresh ==
    /\ fired' = TRUE
    /\ UNCHANGED <<workspaceFolders, workspaceRoot, fs, element, result, notices, calls>>
    /\ UNCHANGED matchVars

Filter ==
    /\ isTestFile = "unset"
    /\ isTestFile' = IF IsTestFile(componentLabel, fileName) THEN "true" ELSE "false"
    /\ UNCHANGED <<componentLabel, fileName>>
    /\ UNCHANGED treeVars

Next == GetChildrenRoot \/ GetChildrenElement \/ Refresh

NextMatch == Filter

Spec == Init /\ [][Next]_vars
SpecNoWorkspace == InitNoWorkspace /\ [][Next]_vars
SpecMatch == InitMatch /\ [][NextMatch]_vars

-----------------------------------------------------------------------------
(* Vocabulary of the properties, stated without the provider's operators *)

RootSet == workspaceRoot # <<>>
Called == calls > 0
TestsDir == PathJoin(workspaceRoot, TestsName)
StoriesDir == PathJoin(workspaceRoot, StoriesName)
UiDir == PathJoin(DiskRoot, UiName)

RootCall == Called /\ RootSet /\ element = <<>>
AuxiliaryCall == Called /\ RootSet /\ element # <<>> /\ element[1].fsPath \in {TestsDir, StoriesDir}
RegularCall == Called /\ RootSet /\ element # <<>> /\ element[1].fsPath \notin {TestsDir, StoriesDir}

Parent(p) == SubSeq(p, 1, Len(p) - 1)
LabelsOf(items) == [i \in 1..Len(items) |-> items[i].label]
Outcome(r) == [thrown |-> r.thrown, items |-> r.items]

StartsWith(x, p) == Len(p) <= Len(x) /\ \A i \in 1..Len(p) : x[i] = p[i]
Contains(x, p) == \E k \in 0..(Len(x) - Len(p)) : SubSeq(x, k + 1, k + Len(p)) = p
AuxNamed(label) == Contains(label, DotTest) \/ Contains(label, DotStories)

\* the part of c before its first '.', all of c when it has none
Stem(c) ==
    LET n == CHOOSE k \in 0..Len(c) :
                 /\ \A i \in 1..k : c[i] # "."
                 /\ k = Len(c) \/ c[k + 1] = "."
    IN  SubSeq(c, 1, n)

MatchesSpec(c, x) ==
    StartsWith(x, Stem(c) \o DotTest) \/ StartsWith(x, Stem(c) \o DotStories)

\* the row of entry `name` of directory dir
NodeSpec(f, dir, name, aux) ==
    LET p == PathJoin(dir, name)
        isDir == Stat(f, p) \in {"dir", "unreadable"}
    IN  [label |-> name, fsPath |-> p,
         collapsibleState |-> IF isDir THEN Collapsed ELSE None,
         command |-> IF isDir THEN NoCommand ELSE OpenCommand(p),
         isTestOrStoryFile |-> aux]

\* list(dir): empty for a path that does not exist or cannot be accessed, failing
\* for a path that exists and cannot be enumerated
ListSpec(f, dir, aux) ==
    IF Stat(f, dir) \in {"ENOENT", "EACCES"} THEN [thrown |-> FALSE, items |-> <<>>]
    ELSE IF Stat(f, dir) # "dir" THEN [thrown |-> TRUE, items |-> <<>>]
    ELSE [thrown |-> FALSE,
          items |-> [i \in 1..Len(f[dir].ls) |-> NodeSpec(f, dir, f[dir].ls[i], aux)]]

RECURSIVE Flatten(_)
Flatten(ss) == IF ss = <<>> THEN <<>> ELSE Head(ss) \o Flatten(Tail(ss))

\* the merged listing of dir: each entry of list(dir), followed (when `owns` holds
\* of it) by the tests entries and then the stories entries matching it
SpliceSpec(f, wr, dir, owns(_)) ==
    LET base == ListSpec(f, dir, FALSE)
        T == ListSpec(f, PathJoin(wr, TestsName), TRUE)
        S == ListSpec(f, PathJoin(wr, StoriesName), TRUE)
        matching(L, e) == SelectSeq(L.items, LAMBDA x : MatchesSpec(e.label, x.label))
        block(e) == <<e>> \o (IF owns(e) THEN matching(T, e) \o matching(S, e) ELSE <<>>)
        auxRead == \E i \in 1..Len(base.items) : owns(base.items[i])
    IN  IF base.thrown \/ (auxRead /\ (T.thrown \/ S.thrown))
        THEN [thrown |-> TRUE, items |-> <<>>]
        ELSE [thrown |-> FALSE,
              items |-> Flatten([i \in 1..Len(base.items) |-> block(base.items[i])])]

EveryEntry(e) == TRUE
ComponentNamed(e) == ~AuxNamed(e.label)
ComponentFile(e) == e.collapsibleState = None /\ ~AuxNamed(e.label)

Button_tsx == <<"B", "u", "t", "t", "o", "n", ".">> \o Tsx
Button_test_tsx == <<"B", "u", "t", "t", "o", "n">> \o DotTest \o Tsx
Button_stories_tsx == <<"B", "u", "t", "t", "o", "n">> \o DotStories \o Tsx
ButtonGroup_test_tsx ==
    <<"B", "u", "t", "t", "o", "n", "G", "r", "o", "u", "p">> \o DotTest \o Tsx

-----------------------------------------------------------------------------
(* Properties *)

\* C1: the filter callback of findMatchingFiles keeps candidate X for component
\* label C iff X starts with stem(C) + ".test." or stem(C) + ".stories."; so
\* ButtonGroup.test.tsx is rejected for Button.tsx while Button.test.tsx and
\* Button.stories.tsx are kept.
C1_NameMatcher ==
    isTestFile # "unset" =>
        /\ (isTestFile = "true") <=> MatchesSpec(componentLabel, fileName)
        /\ componentLabel = Button_tsx /\ fileName = ButtonGroup_test_tsx
               => isTestFile = "false"
        /\ componentLabel = Button_tsx /\ fileName \in {Button_test_tsx, Button_stories_tsx}
               => isTestFile = "true"

C1_Witness ==
    /\ isTestFile = "false"
    /\ componentLabel = Button_tsx
    /\ fileName = ButtonGroup_test_tsx

\* every directory the merge reads exists and can be enumerated
Listable(dir) ==
    \A p \in {dir, TestsDir, StoriesDir} : Stat(fs, p) = "dir"

C3_RootQueryMerged ==
    (RootCall /\ Listable(workspaceRoot)) =>
        Outcome(result) = SpliceSpec(fs, workspaceRoot, workspaceRoot, ComponentFile)

\* C4: in the expansion of a regular directory, matches are spliced only after an
\* entry that is a file and whose name contains neither ".test." nor ".stories.";
\* no node is spliced after a directory entry.
C4_SpliceOnlyAfterComponentFiles ==
    (RegularCall /\ ~result.thrown) =>
        \A i \in 1..Len(result.items) :
            Parent(result.items[i].fsPath) # element[1].fsPath =>
                LET owner == CHOOSE j \in 1..(i - 1) :
                                 /\ Parent(result.items[j].fsPath) = element[1].fsPath
                                 /\ \A k \in (j + 1)..(i - 1) :
                                        Parent(result.items[k].fsPath) # element[1].fsPath
                IN  ComponentFile(result.items[owner])

\* C5: expanding the node of workspaceRoot/tests or workspaceRoot/stories returns
\* exactly the listing of that directory: one node per entry, in listing order,
\* every node marked auxiliary, nothing spliced in.
C5_AuxiliaryExpansion ==
    AuxiliaryCall =>
        /\ Outcome(result) = ListSpec(fs, element[1].fsPath, TRUE)
        /\ Stat(fs, element[1].fsPath) = "dir" =>
               /\ ~result.thrown
               /\ Len(result.items) = Len(fs[element[1].fsPath].ls)
               /\ \A i \in 1..Len(result.items) :
                      /\ result.items[i].label = fs[element[1].fsPath].ls[i]
                      /\ Parent(result.items[i].fsPath) = element[1].fsPath
                      /\ result.items[i].isTestOrStoryFile

C5_Witness ==
    /\ AuxiliaryCall
    /\ element[1].fsPath = TestsDir
    /\ LabelsOf(result.items) = <<A_tsx, A_test_tsx>>
    /\ Stat(fs, StoriesDir) = "dir"
    /\ A_stories_tsx \in Range(fs[StoriesDir].ls)

\* C6: with the workspace root unset, every getChildren call returns the empty
\* sequence without touching the filesystem and raises exactly one notice, so
\* after n calls n notices were raised.
C6_MissingWorkspace ==
    ~RootSet =>
        /\ notices = calls
        /\ ~result.thrown
        /\ result.items = <<>>
        /\ result.io = 0

C6_Witness ==
    /\ ~RootSet
    /\ calls = 2
    /\ notices = 2
    /\ element # <<>>
    /\ Stat(fs, DiskRoot) = "dir"

\* C7: listing a directory that does not exist, or whose existence check fails
\* with an access error, gives the empty sequence and no error; so with neither a
\* tests nor a stories directory the merged listing of a directory is its plain
\* listing.
ProbePaths == {DiskRoot, UiDir, PathJoin(DiskRoot, TestsName), PathJoin(DiskRoot, StoriesName),
               PathJoin(DiskRoot, A_dir)}

C7_MissingDirectory ==
    /\ \A p \in ProbePaths :
           Stat(fs, p) \in {"ENOENT", "EACCES"} =>
               Outcome(GetAllFilesInDirectory(workspaceRoot, fs, p))
                   = [thrown |-> FALSE, items |-> <<>>]
    /\ (RootCall /\ Stat(fs, workspaceRoot) \in {"ENOENT", "EACCES"}) =>
           Outcome(result) = [thrown |-> FALSE, items |-> <<>>]
    /\ (/\ RegularCall
        /\ Stat(fs, TestsDir) \in {"ENOENT", "EACCES"}
        /\ Stat(fs, StoriesDir) \in {"ENOENT", "EACCES"}) =>
           Outcome(result) = ListSpec(fs, element[1].fsPath, FALSE)

C7_Witness ==
    /\ RegularCall
    /\ Stat(fs, TestsDir) = "EACCES"
    /\ Stat(fs, StoriesDir) = "ENOENT"
    /\ LabelsOf(result.items) = <<A_tsx, B_tsx>>

\* C8: getChildren never raises, whatever the filesystem holds.
C8_NoFatalFailure == Called => ~result.thrown

C10_NoDuplicateRows ==
    (Called /\ ~result.thrown /\ \A i \in 1..Len(result.items) :
                                     result.items[i].collapsibleState = None) =>
        \A i, j \in 1..Len(result.items) :
            i # j => result.items[i].fsPath # result.items[j].fsPath

====
